---- MODULE Spec2Model ----
(***************************************************************************)
(* Family-graph store and linkage engine of the famlink backend.           *)
(*                                                                         *)
(* The store is the five MongoDB collections the controllers read and      *)
(* write (Family, FamilyMember, FamilyBranch, FamilyCreationFlow,          *)
(* LinkedFamilies).  Every request handler of the family controller is an  *)
(* action; linkFamily is split at the awaits that separate its reads from  *)
(* its writes, so two requests can interleave the way two event-loop tasks *)
(* do.  Join codes are numbers 1..NumCodes, ids are positive numbers.      *)
(***************************************************************************)
EXTENDS Integers, Sequences, FiniteSets, TLC

\* ---------------------------------------------------------------- bounds
NumPrincipals == 2
NumCodes == 3
MaxFamilies == 3
MaxMembers == 2
MaxMothers == 1
NumYears == 2
NumProcs == 2
\* mothers sent in one recorded setupParents request
MaxSubmitted == 2

\* ------------------------------------------------------ program constants
\* generateJoinId.js: const maxAttempts = 10
maxAttempts == 10
\* a field that was never set (undefined / null)
NoCode == 0
NoId == 0
\* generateJoinId.js: throw new Error('Unable to generate unique join ID')
Exhausted == -1
\* birthYear and spouseOrder that were never set
NoYear == 0
NoOrder == 0
\* parentType that was not sent with the request
NoType == ""

Principals == 1..NumPrincipals
Codes == 1..NumCodes
Procs == 1..NumProcs
FamilyIds == 1..MaxFamilies
MemberIds == 1..MaxMembers
Years == 1..NumYears
Relationships == {"Father", "Child"}
TreeRelationships == {"Father", "Mother", "Child"}
ParentTypes == {NoType, "mother"}

VARIABLES
  families,    \* Family collection
  members,     \* FamilyMember collection
  links,       \* LinkedFamilies collection
  flows,       \* FamilyCreationFlow collection
  branches,    \* FamilyBranch collection
  nextMember,  \* next FamilyMember _id
  pc,          \* per request task: where its linkFamily call stands
  req,         \* per request task: the call's joinId and userId
  loc,         \* per request task: the handler's local variables
  result,      \* per request task: the response of its linkFamily call
  calls,       \* per request task: its call of another handler, step by step
  consumed,    \* history: codes consumed by a linkFamily call that succeeded
  draws,       \* issuer run: the codes Math.random produces, in order
  issued       \* issuer run: what generateJoinId returned

store == <<families, members, links, flows, branches, nextMember>>
tasks == <<pc, req, loc, result, calls>>
issuer == <<draws, issued>>
vars == <<families, members, links, flows, branches, nextMember, pc, req, loc, result,
          calls, consumed, draws, issued>>

\* ------------------------------------------------------- join-code issuer
\* One pass of the do-while loop: draw, look the code up, count the attempt,
\* throw once the count reaches maxAttempts, repeat while the code is taken.
RECURSIVE generateLoop(_, _, _)
generateLoop(d, attempts, ms) ==
  LET joinId == d[attempts + 1]
      existingMember == \E m \in ms : m.joinId = joinId
      n == attempts + 1
  IN  IF n >= maxAttempts THEN Exhausted
      ELSE IF existingMember THEN generateLoop(d, n, ms)
      ELSE joinId

generateJoinId(d, ms) == generateLoop(d, 0, ms)

\* The draw sequences the handlers are run with: the first maxAttempts-1
\* draws repeat one code and the last draw is free.
DrawSeqs ==
  { [i \in 1..maxAttempts |-> IF i < maxAttempts THEN a ELSE b] :
      a \in Codes, b \in Codes }

\* The draw sequences of a lone issuer run: k collisions-to-be, then another
\* code, for every k up to maxAttempts.
IssuerDraws ==
  { [i \in 1..maxAttempts |-> IF i <= k THEN a ELSE b] :
      a \in Codes, b \in Codes, k \in 0..maxAttempts }

\* What one call of generateJoinId can return against the members ms
IssuedCodes(ms) == { generateJoinId(d, ms) : d \in DrawSeqs }

\* ----------------------------------------------------------------- schemas
\* FamilyMember document with the schema's defaults.
NewMember(id, familyId, joinId, relationship, isFamilyCreator) ==
  [id |-> id, familyId |-> familyId, joinId |-> joinId, joinIdUsed |-> FALSE,
   isFamilyCreator |-> isFamilyCreator, relationship |-> relationship,
   isLinkedMember |-> FALSE, originalFamilyId |-> NoId, linkedFrom |-> NoId,
   linkedTo |-> NoId, birthYear |-> NoYear, parentType |-> "child",
   isRootMember |-> FALSE, motherId |-> NoId, branchId |-> NoId,
   spouseOrder |-> NoOrder, isDeceased |-> FALSE, deathYear |-> NoYear]

\* The tree fields of a member document as create() stores them: birthYear and
\* the fields the tree structure added to the member schema.
WithTree(m, birthYear, parentType, motherId, branchId, spouseOrder) ==
  [m EXCEPT !.birthYear = birthYear, !.parentType = parentType,
            !.isRootMember = (parentType \in {"father", "mother"}),
            !.motherId = motherId, !.branchId = branchId,
            !.spouseOrder = spouseOrder]

\* The store without the unique index on joinId
NoJoinIdIndex(ms, id, joinId) == TRUE

\* joinId: required
ValidMember(m) == m.joinId # NoCode

\* familyMemberSchema.index({ joinId: 1 }, { unique: true })
JoinIdIndexAllows(ms, id, joinId) ==
  \A x \in ms : x.id # id => x.joinId # joinId

\* familySchema.index({ creatorJoinId: 1 }, { unique: true })
CreatorJoinIdIndexAllows(fs, code) == \A f \in fs : f.creatorJoinId # code

\* linkedFamiliesSchema.index({ mainFamilyId, linkedFamilyId }, { unique: true })
LinkIndexAllows(ls, mainFamilyId, linkedFamilyId) ==
  ~ \E l \in ls : l.mainFamilyId = mainFamilyId /\ l.linkedFamilyId = linkedFamilyId

\* FamilyMember.findByJoinId: the member holding the code, or none
findByJoinId(ms, joinId) == { m \in ms : m.joinId = joinId }

MemberById(ms, id) == CHOOSE m \in ms : m.id = id

\* Family.findMainFamilyByUser: findOne, the first match in insertion order
findMainFamilyByUser(fs, userId) ==
  LET mine == { f.id : f \in { g \in fs : g.creatorId = userId /\ g.isMainFamily } }
  IN  IF mine = {} THEN NoId ELSE CHOOSE i \in mine : \A j \in mine : i <= j

\* familySchema.pre('save'): a family saved as main demotes the creator's others
SaveMainFamily(fs, f) ==
  { IF g.creatorId = f.creatorId /\ g.isMainFamily
      THEN [g EXCEPT !.isMainFamily = FALSE] ELSE g : g \in fs } \cup {f}

\* currentStep one step ahead of the completed steps, wrapping at totalSteps
FlowStepShifted(n) ==
  IF n = 0 THEN "parent_setup"
  ELSE IF n = 1 THEN "children_setup"
  ELSE IF n = 2 THEN "completed"
  ELSE "initialized"

\* familyCreationFlowSchema.pre('save'): currentStep from the completed steps
FlowStep(n) ==
  IF n = 0 THEN "initialized"
  ELSE IF n = 1 THEN "parent_setup"
  ELSE IF n = 2 THEN "children_setup"
  ELSE "completed"

SaveFlow(fl) ==
  LET completedSteps == (IF fl.parentsSetup THEN 1 ELSE 0)
                      + (IF fl.childrenSetup THEN 1 ELSE 0)
                      + (IF fl.branchesCreated THEN 1 ELSE 0)
  IN  [fl EXCEPT !.currentStep = FlowStep(completedSteps),
                 !.setupCompleted = (fl.setupCompleted \/ completedSteps >= 3)]

NewFlow(userId, familyId) ==
  SaveFlow([userId |-> userId, familyId |-> familyId, parentsSetup |-> FALSE,
            childrenSetup |-> FALSE, branchesCreated |-> FALSE,
            currentStep |-> "initialized", setupCompleted |-> FALSE])

\* enum of currentStep
FlowSteps == {"initialized", "parent_setup", "children_setup", "completed"}

\* document.save() of one stored flow
StoreFlow(fl, saved) ==
  /\ flows' = (flows \ {fl}) \cup {SaveFlow(saved)}
  /\ UNCHANGED <<families, members, links, branches, nextMember, tasks, consumed,
                 issuer>>

\* familyCreationFlowSchema.methods.markParentsSetupComplete
MarkParentsSetupComplete ==
  \E fl \in flows : StoreFlow(fl, [fl EXCEPT !.parentsSetup = TRUE])

\* familyCreationFlowSchema.methods.markChildrenSetupComplete
MarkChildrenSetupComplete ==
  \E fl \in flows : StoreFlow(fl, [fl EXCEPT !.childrenSetup = TRUE])

\* familyCreationFlowSchema.methods.markBranchesCreated
MarkBranchesCreated ==
  \E fl \in flows : StoreFlow(fl, [fl EXCEPT !.branchesCreated = TRUE])

\* familyCreationFlowSchema.methods.resetToStep(step): the step is assigned,
\* the three flags are cleared, and save() runs the pre('save') hook
ResetToStep ==
  \E fl \in flows, step \in FlowSteps :
    StoreFlow(fl, [fl EXCEPT !.currentStep = step, !.parentsSetup = FALSE,
                             !.childrenSetup = FALSE,
                             !.branchesCreated = FALSE])

\* ---------------------------------------------------------------- initial
NoReq == [joinId |-> NoCode, userId |-> NoId]
NoLoc == [member |-> NoId, linkedFamily |-> NoId, userMainFamily |-> NoId,
          txn |-> {}]
NoResult == [kind |-> "none", linkedFamilyMembers |-> 0, linkedMembers |-> 0,
             userFamilyMembers |-> 0, userLinkedMembers |-> 0]
NoCall == [op |-> "none", pc |-> "idle", userId |-> NoId, familyId |-> NoId,
           joinId |-> NoCode, relationship |-> "", order |-> NoOrder,
           memberId |-> NoId, others |-> {}, fatherBirthYear |-> NoYear,
           birthYear |-> NoYear, mothers |-> <<>>, kind |-> "none"]

Init ==
  /\ families = {}
  /\ members = {}
  /\ links = {}
  /\ flows = {}
  /\ branches = {}
  /\ nextMember = 1
  /\ pc = [p \in Procs |-> "idle"]
  /\ req = [p \in Procs |-> NoReq]
  /\ loc = [p \in Procs |-> NoLoc]
  /\ result = [p \in Procs |-> NoResult]
  /\ calls = [p \in Procs |-> NoCall]
  /\ consumed = {}
  /\ draws = <<>>
  /\ issued = NoCode

\* ------------------------------------------------------------ createFamily
\* POST /api/families
CreateFamily ==
  \E userId \in Principals, creatorJoinId \in Codes \cup {NoCode} :
    /\ Cardinality(families) < MaxFamilies
    /\ nextMember <= MaxMembers
    /\ IF findMainFamilyByUser(families, userId) # NoId
         THEN UNCHANGED store
         ELSE \E finalCreatorJoinId \in
                   (IF creatorJoinId # NoCode THEN {creatorJoinId}
                    ELSE IssuedCodes(members)) :
                LET family == [id |-> Cardinality(families) + 1,
                               creatorId |-> userId,
                               creatorJoinId |-> finalCreatorJoinId,
                               isMainFamily |-> TRUE]
                    creatorMember == NewMember(nextMember, family.id,
                                               finalCreatorJoinId, "Creator", TRUE)
                IN  IF finalCreatorJoinId = Exhausted
                       \/ ~CreatorJoinIdIndexAllows(families, finalCreatorJoinId)
                      THEN UNCHANGED store
                    ELSE /\ families' = SaveMainFamily(families, family)
                         /\ IF ValidMember(creatorMember)
                               /\ JoinIdIndexAllows(members, creatorMember.id,
                                                    creatorMember.joinId)
                              THEN /\ members' = members \cup {creatorMember}
                                   /\ nextMember' = nextMember + 1
                              ELSE UNCHANGED <<members, nextMember>>
                         /\ UNCHANGED <<links, flows, branches>>
    /\ UNCHANGED <<tasks, consumed, issuer>>

\* -------------------------------------------------- initializeFamilyCreation
\* POST /api/families/initialize-creation
InitializeFamilyCreation ==
  \E userId \in Principals :
    /\ Cardinality(families) < MaxFamilies
    /\ LET existingFlow == { fl \in flows : fl.userId = userId /\ ~fl.setupCompleted }
       IN  IF existingFlow # {}
             THEN UNCHANGED store
             ELSE \E creatorJoinId \in IssuedCodes(members) :
                    LET family == [id |-> Cardinality(families) + 1,
                                   creatorId |-> userId,
                                   creatorJoinId |-> creatorJoinId,
                                   isMainFamily |-> TRUE]
                    IN  IF creatorJoinId = Exhausted
                           \/ ~CreatorJoinIdIndexAllows(families, creatorJoinId)
                          THEN UNCHANGED store
                        ELSE /\ families' = SaveMainFamily(families, family)
                             /\ flows' = flows \cup {NewFlow(userId, family.id)}
                             /\ UNCHANGED <<members, links, branches, nextMember>>
    /\ UNCHANGED <<tasks, consumed, issuer>>

\* A creator check that lets every caller through
AnyoneIsCreator(family, userId) == TRUE

\* familySchema.methods.isCreator
isCreator(family, userId) == family.creatorId = userId

\* Family.findById, then the handlers' creator check: "ok" or the error code
FamilyAccess(fs, familyId, userId) ==
  LET family == { f \in fs : f.id = familyId }
  IN  IF family = {} THEN "NOT_FOUND"
      ELSE IF ~isCreator(CHOOSE f \in family : TRUE, userId)
        THEN "AUTHORIZATION_ERROR"
      ELSE "ok"

\* --------------------------------------------------------- addFamilyMember
\* relationship.toLowerCase().includes(word)
RelationshipIncludes(relationship, word) ==
  \/ word = "father" /\ relationship = "Father"
  \/ word = "mother" /\ relationship = "Mother"
  \/ word = "wife" /\ relationship \in {"Wife 1", "Wife 2"}

\* let finalParentType = parentType || 'child', then the if / else if chain
FinalParentType(parentType, relationship) ==
  LET finalParentType == IF parentType = NoType THEN "child" ELSE parentType
  IN  IF finalParentType = "father" \/ RelationshipIncludes(relationship, "father")
        THEN "father"
      ELSE IF \/ finalParentType = "mother"
              \/ RelationshipIncludes(relationship, "mother")
              \/ RelationshipIncludes(relationship, "wife")
        THEN "mother"
      ELSE finalParentType

\* if (childBirthYear <= motherBirthYear)
BornTooEarly(childBirthYear, motherBirthYear) == childBirthYear <= motherBirthYear

\* FamilyMember.findOne({ _id: motherId, familyId, parentType: 'mother' })
findMother(ms, motherId, familyId) ==
  { m \in ms : m.id = motherId /\ m.familyId = familyId /\ m.parentType = "mother" }

\* FamilyBranch.findByMotherId: the branch's _id, or null
findByMotherId(bs, motherId) ==
  LET found == { b \in bs : b.motherId = motherId }
  IN  IF found = {} THEN NoId ELSE (CHOOSE b \in found : TRUE).id

\* The handler from the role detection to the document it hands to create():
\*   NotFound         404 'Mother not found or not valid for this family'
\*   ValidationError  400 'Child must be born after mother'
AddedMember(ms, bs, id, familyId, joinId, relationship, parentType, birthYear, motherId) ==
  LET finalParentType == FinalParentType(parentType, relationship)
      asked == finalParentType = "child" /\ motherId # NoId
      mother == findMother(ms, motherId, familyId)
      doc == WithTree(NewMember(id, familyId, joinId, relationship, FALSE),
                      birthYear, finalParentType,
                      IF finalParentType = "child" THEN motherId ELSE NoId,
                      IF asked THEN findByMotherId(bs, motherId) ELSE NoId,
                      NoOrder)
  IN  IF asked /\ mother = {} THEN [kind |-> "NotFound", member |-> doc]
      ELSE IF asked /\ BornTooEarly(birthYear, (CHOOSE m \in mother : TRUE).birthYear)
        THEN [kind |-> "ValidationError", member |-> doc]
      ELSE [kind |-> "ok", member |-> doc]

\* deathYear: isDeceased ? deathYear : undefined
WithDeath(m, isDeceased, deathYear) ==
  [m EXCEPT !.isDeceased = isDeceased,
            !.deathYear = IF isDeceased THEN deathYear ELSE NoYear]

\* POST /api/families/:familyId/members
\*   400 VALIDATION_ERROR                     isDeceased without a deathYear
\*   404 NOT_FOUND, 403 AUTHORIZATION_ERROR   FamilyAccess
\*   404 NOT_FOUND, 400 VALIDATION_ERROR      AddedMember
\*   500 INTERNAL_ERROR                       generateJoinId or the create threw
\* A request refused by the first two writes nothing and is no step.
AddMember(familyId, userId, relationship, parentType, birthYear, motherId, isDeceased, deathYear) ==
  /\ nextMember <= MaxMembers
  /\ ~(isDeceased /\ deathYear = NoYear)
  /\ FamilyAccess(families, familyId, userId) = "ok"
  /\ \E joinId \in IssuedCodes(members) :
       LET r == AddedMember(members, branches, nextMember, familyId, joinId,
                            relationship, parentType, birthYear, motherId)
       IN  IF joinId = Exhausted
              \/ r.kind # "ok"
              \/ ~ValidMember(r.member)
              \/ ~JoinIdIndexAllows(members, r.member.id, r.member.joinId)
             THEN UNCHANGED store
           ELSE /\ members' = members \cup
                                 {WithDeath(r.member, isDeceased, deathYear)}
                /\ nextMember' = nextMember + 1
                /\ UNCHANGED <<families, links, flows, branches>>
  /\ UNCHANGED <<tasks, consumed, issuer>>

\* A member added with a relationship only: no parentType, no motherId, and
\* the same birth year in every call
AddFamilyMember ==
  \E familyId \in FamilyIds, userId \in Principals, relationship \in Relationships :
    AddMember(familyId, userId, relationship, NoType, 1, NoId, FALSE, NoYear)

\* A member added with any of the inputs the tree structure reads
AddTreeMember ==
  \E familyId \in FamilyIds, userId \in Principals,
     relationship \in TreeRelationships, parentType \in ParentTypes,
     birthYear \in Years, motherId \in MemberIds \cup {NoId} :
    AddMember(familyId, userId, relationship, parentType, birthYear, motherId,
              FALSE, NoYear)

\* deathYear of the request schemas: required when isDeceased is true,
\* forbidden otherwise
DeathYearAccepted(isDeceased, deathYear) ==
  IF isDeceased = "true" THEN deathYear # NoYear ELSE deathYear = NoYear

\* A child added as living or as deceased with a death year
AddLateMember ==
  \E familyId \in FamilyIds, userId \in Principals, isDeceased \in BOOLEAN,
     deathYear \in Years \cup {NoYear} :
    /\ DeathYearAccepted(IF isDeceased THEN "true" ELSE "false", deathYear)
    /\ AddMember(familyId, userId, "Child", NoType, 1, NoId, isDeceased, deathYear)

\* ------------------------------------------------------------ setupParents
\* relationship: `Wife ${motherData.spouseOrder}`
WifeRelationship(spouseOrder) == IF spouseOrder = 1 THEN "Wife 1" ELSE "Wife 2"

\* motherBirthYears.some(year => year < fatherBirthYear)
MotherOlderThanFather(fatherBirthYear, mothers) ==
  \E i \in 1..Len(mothers) : mothers[i].birthYear < fatherBirthYear

\* Array.prototype.sort((a, b) => a - b) on a list of numbers
RECURSIVE SortAscending(_)
SortAscending(orders) ==
  IF Len(orders) = 0 THEN <<>>
  ELSE LET least == CHOOSE i \in 1..Len(orders) :
                      \A j \in 1..Len(orders) : orders[i] <= orders[j]
       IN  <<orders[least]>> \o
           SortAscending([ k \in 1..(Len(orders) - 1) |->
                             IF k < least THEN orders[k] ELSE orders[k + 1] ])

\* every(order === index + 1) on the list as submitted, without the sort
UnsortedSequentialSpouseOrders(mothers) ==
  \A index \in 1..Len(mothers) : mothers[index].spouseOrder = index

\* spouseOrders sorted ascending, then every(order === index + 1)
SequentialSpouseOrders(mothers) ==
  LET spouseOrders == SortAscending([ i \in 1..Len(mothers) |->
                                       mothers[i].spouseOrder ])
  IN  \A index \in 1..Len(spouseOrders) : spouseOrders[index] = index

\* familyBranchSchema.pre('save') on branchOrder and the unique index on
\* { familyId, motherId }
BranchAllows(bs, familyId, motherId, branchOrder) ==
  /\ ~ \E b \in bs : b.familyId = familyId /\ b.branchOrder = branchOrder
  /\ ~ \E b \in bs : b.familyId = familyId /\ b.motherId = motherId

MotherInputs == [birthYear : Years, spouseOrder : 1..(MaxMothers + 1)]
MotherLists == UNION { [1..n -> MotherInputs] : n \in 0..MaxMothers }

\* for (const motherData of mothers): the mother, her branch, one after the
\* other; codes[i] is what the i-th generateJoinId call returned (the run is
\* possible when each is a code the issuer can return at that point); a throw
\* (ok = FALSE) leaves what was created before it.
RECURSIVE CreateMothers(_, _, _, _)
CreateMothers(st, familyId, mothers, codes) ==
  IF mothers = <<>> \/ ~st.ok \/ ~st.possible THEN st
  ELSE LET motherData == Head(mothers)
           joinId == Head(codes)
           motherMember == WithTree(
                             NewMember(st.nextMember, familyId, joinId,
                                       WifeRelationship(motherData.spouseOrder), FALSE),
                             motherData.birthYear, "mother", NoId, NoId,
                             motherData.spouseOrder)
           branch == [id |-> Cardinality(st.branches) + 1, familyId |-> familyId,
                      motherId |-> motherMember.id,
                      branchOrder |-> motherData.spouseOrder]
       IN  IF joinId \notin IssuedCodes(st.members)
             THEN [st EXCEPT !.possible = FALSE]
           ELSE IF joinId = Exhausted
              \/ ~ValidMember(motherMember)
              \/ ~JoinIdIndexAllows(st.members, motherMember.id, joinId)
             THEN [st EXCEPT !.ok = FALSE]
           ELSE IF ~BranchAllows(st.branches, familyId, branch.motherId,
                                 branch.branchOrder)
             THEN [st EXCEPT !.members = @ \cup {motherMember},
                             !.nextMember = @ + 1, !.ok = FALSE]
           ELSE CreateMothers([members |-> st.members \cup
                                 {[motherMember EXCEPT !.branchId = branch.id]},
                               branches |-> st.branches \cup {branch},
                               nextMember |-> st.nextMember + 1, ok |-> TRUE,
                               possible |-> TRUE],
                              familyId, Tail(mothers), Tail(codes))

\* POST /api/families/:familyId/setup-parents
\*   403 AUTHORIZATION_ERROR  no such family, or the caller is not its creator
\*   400 VALIDATION_ERROR     a mother born before the father; spouse orders
\*                            that are not 1..n
\*   500 INTERNAL_ERROR       a create threw; the earlier creates stay
\* The checks made before the first write, in the handler's order.
SetupRejection(familyId, userId, fatherBirthYear, mothers) ==
  IF FamilyAccess(families, familyId, userId) # "ok"
    THEN "AUTHORIZATION_ERROR"
  ELSE IF MotherOlderThanFather(fatherBirthYear, mothers)
    THEN "VALIDATION_ERROR"
  ELSE IF ~SequentialSpouseOrders(mothers)
    THEN "VALIDATION_ERROR"
  ELSE "ok"

\* The father's create followed by the loop over the mothers; ok is FALSE
\* when a create threw
SetupCreates(familyId, fatherBirthYear, mothers, fatherJoinId, codes) ==
  LET fatherMember == WithTree(
                        NewMember(nextMember, familyId, fatherJoinId,
                                  "Father", FALSE),
                        fatherBirthYear, "father", NoId, NoId, NoOrder)
  IN  IF fatherJoinId = Exhausted
         \/ ~ValidMember(fatherMember)
         \/ ~JoinIdIndexAllows(members, fatherMember.id, fatherJoinId)
        THEN [members |-> members, branches |-> branches,
              nextMember |-> nextMember, ok |-> FALSE, possible |-> TRUE]
      ELSE CreateMothers(
             [members |-> members \cup {fatherMember},
              branches |-> branches,
              nextMember |-> nextMember + 1, ok |-> TRUE,
              possible |-> TRUE],
             familyId, mothers, codes)

\* The store after the creates: the flow is marked only when none threw
SetupWrites(familyId, st) ==
  /\ st.possible
  /\ members' = st.members
  /\ branches' = st.branches
  /\ nextMember' = st.nextMember
  /\ flows' = IF st.ok
       THEN { IF fl.familyId = familyId
                THEN SaveFlow([fl EXCEPT !.parentsSetup = TRUE])
                ELSE fl : fl \in flows }
       ELSE flows
  /\ UNCHANGED <<families, links>>

SetupParentsOf(years, lists) ==
  \E familyId \in FamilyIds, userId \in Principals, fatherBirthYear \in years,
     mothers \in lists :
    /\ nextMember + Len(mothers) <= MaxMembers
    /\ IF SetupRejection(familyId, userId, fatherBirthYear, mothers) # "ok"
         THEN UNCHANGED store
       ELSE \E fatherJoinId \in IssuedCodes(members),
               codes \in [1..Len(mothers) -> Codes \cup {Exhausted}] :
            SetupWrites(familyId,
                        SetupCreates(familyId, fatherBirthYear, mothers,
                                     fatherJoinId, codes))
    /\ UNCHANGED <<tasks, consumed, issuer>>

SetupParents == SetupParentsOf(Years, MotherLists)

\* Parents set up with the same birth year in every call
SetupParentsSameYear ==
  SetupParentsOf({1}, { mothers \in MotherLists :
                          \A i \in 1..Len(mothers) : mothers[i].birthYear = 1 })

\* setupParents with the request and its response kept in calls[p]: the
\* mothers are sent in any order, with spouse orders that may repeat or
\* leave a gap.
SubmittedLists ==
  UNION { [1..n -> [birthYear : Years, spouseOrder : 1..(MaxSubmitted + 1)]] :
            n \in 0..MaxSubmitted }

SetupParentsCallOf(p, years, lists) ==
  \E familyId \in FamilyIds, userId \in Principals, fatherBirthYear \in years,
     mothers \in lists :
    LET rejection == SetupRejection(familyId, userId, fatherBirthYear, mothers)
        sent == [NoCall EXCEPT !.op = "setupParents", !.pc = "done",
                               !.userId = userId, !.familyId = familyId,
                               !.fatherBirthYear = fatherBirthYear,
                               !.mothers = mothers]
    IN  /\ calls[p].pc = "idle"
        /\ nextMember <= MaxMembers
        /\ IF rejection # "ok"
             THEN /\ calls' = [calls EXCEPT ![p] = [sent EXCEPT !.kind = rejection]]
                  /\ UNCHANGED store
           ELSE \E fatherJoinId \in IssuedCodes(members),
                   codes \in [1..Len(mothers) -> Codes \cup {Exhausted}] :
                LET st == SetupCreates(familyId, fatherBirthYear, mothers,
                                       fatherJoinId, codes)
                IN  /\ SetupWrites(familyId, st)
                    /\ calls' = [calls EXCEPT ![p] =
                         [sent EXCEPT !.kind = IF st.ok THEN "ok"
                                                ELSE "INTERNAL_ERROR"]]
        /\ UNCHANGED <<pc, req, loc, result, consumed, issuer>>

SetupParentsCall(p) == SetupParentsCallOf(p, Years, SubmittedLists)

\* ------------------------------------------------------ updateFamilyMember
\* PUT /api/families/:familyId/members/:memberId.  relationship and birthYear
\* are the updated fields the model keeps; a field not sent keeps its value.
UpdateMember(familyId, memberId, userId, relationship, birthYear, isDeceased, deathYear) ==
  /\ LET member == { m \in members : m.id = memberId /\ m.familyId = familyId }
     IN  IF FamilyAccess(families, familyId, userId) # "ok"
           THEN UNCHANGED store
         ELSE IF member = {}
           THEN UNCHANGED store
         ELSE /\ members' =
                   { IF m.id = memberId
                       THEN [m EXCEPT
                               !.relationship =
                                  IF relationship # "" THEN relationship ELSE @,
                               !.birthYear =
                                  IF birthYear # NoYear THEN birthYear ELSE @,
                               !.isDeceased =
                                  IF isDeceased # "undefined"
                                    THEN isDeceased = "true" ELSE @,
                               !.deathYear =
                                  IF deathYear # NoYear THEN deathYear ELSE @]
                       ELSE m : m \in members }
              /\ UNCHANGED <<families, links, flows, branches, nextMember>>
  /\ UNCHANGED <<tasks, consumed, issuer>>

\* An update of the relationship, the birth year, or both
UpdateFamilyMember ==
  \E familyId \in FamilyIds, memberId \in MemberIds, userId \in Principals,
     relationship \in {"", "Mother"}, birthYear \in Years \cup {NoYear} :
    UpdateMember(familyId, memberId, userId, relationship, birthYear,
                 "undefined", NoYear)

\* An update of isDeceased and deathYear that the request schema lets through
UpdateLateMember ==
  \E familyId \in FamilyIds, memberId \in MemberIds, userId \in Principals,
     isDeceased \in {"undefined", "true", "false"},
     deathYear \in Years \cup {NoYear} :
    /\ DeathYearAccepted(isDeceased, deathYear)
    /\ UpdateMember(familyId, memberId, userId, "", NoYear, isDeceased, deathYear)

\* ------------------------------------------------------ deleteFamilyMember
\* A handler that deletes whichever member it is asked to
NeverProtected(member) == FALSE

\* if (member.isFamilyCreator): 'Cannot delete the family creator'
ProtectedMember(member) == member.isFamilyCreator

\* DELETE /api/families/:familyId/members/:memberId, with its response
\*   404 NOT_FOUND, 403 AUTHORIZATION_ERROR   FamilyAccess
\*   404 NOT_FOUND                            no such member in the family
\*   400 CONFLICT                             the member is the family creator
DeleteFamilyMember(p) ==
  /\ calls[p].pc = "idle"
  /\ \E familyId \in FamilyIds, memberId \in MemberIds, userId \in Principals :
       LET access == FamilyAccess(families, familyId, userId)
           member == { m \in members : m.id = memberId }
           kind == IF access # "ok" THEN access
                   ELSE IF member = {}
                           \/ (CHOOSE m \in member : TRUE).familyId # familyId
                     THEN "NOT_FOUND"
                   ELSE IF ProtectedMember(CHOOSE m \in member : TRUE)
                     THEN "CONFLICT"
                   ELSE "ok"
       IN  /\ calls' = [calls EXCEPT ![p] =
                 [NoCall EXCEPT !.op = "deleteFamilyMember", !.pc = "done",
                                !.userId = userId, !.familyId = familyId,
                                !.memberId = memberId, !.kind = kind]]
           /\ members' = IF kind = "ok" THEN members \ member ELSE members
  /\ UNCHANGED <<families, links, flows, branches, nextMember, pc, req, loc, result,
                 consumed, issuer>>

\* ---------------------------------------------------- generateMemberJoinId
\* POST /api/families/:familyId/join-ids.  A request that is refused (no such
\* family, not its creator, no such member) writes nothing and is no step.
GenerateMemberJoinId ==
  \E familyId \in FamilyIds, memberId \in MemberIds, userId \in Principals :
    /\ FamilyAccess(families, familyId, userId) = "ok"
    /\ LET member == { m \in members : m.id = memberId /\ m.familyId = familyId }
       IN  /\ member # {}
           /\ \E newJoinId \in IssuedCodes(members) :
                  IF newJoinId = Exhausted
                     \/ ~JoinIdIndexAllows(members, memberId, newJoinId)
                    THEN UNCHANGED store
                  ELSE /\ members' = { IF m.id = memberId
                                         THEN [m EXCEPT !.joinId = newJoinId,
                                                        !.joinIdUsed = FALSE]
                                         ELSE m : m \in members }
                       /\ UNCHANGED <<families, links, flows, branches, nextMember>>
    /\ UNCHANGED <<tasks, consumed, issuer>>

\* --------------------------------------- the handlers with their responses
\* res.status(...).json(...): the request and its error code, or "ok", are
\* kept in calls[p] until the task takes its next request
Answer(p, op, familyId, userId, kind) ==
  calls' = [calls EXCEPT ![p] =
              [NoCall EXCEPT !.op = op, !.pc = "done", !.userId = userId,
                             !.familyId = familyId, !.kind = kind]]

\* addFamilyMember for a child, with its response
AddFamilyMemberCall(p) ==
  /\ calls[p].pc = "idle"
  /\ nextMember <= MaxMembers
  /\ \E familyId \in FamilyIds, userId \in Principals :
       LET access == FamilyAccess(families, familyId, userId)
       IN  IF access # "ok"
             THEN /\ Answer(p, "addFamilyMember", familyId, userId, access)
                  /\ UNCHANGED store
           ELSE \E joinId \in IssuedCodes(members) :
                  LET r == AddedMember(members, branches, nextMember, familyId,
                                       joinId, "Child", NoType, 1, NoId)
                  IN  IF joinId = Exhausted
                        THEN /\ Answer(p, "addFamilyMember", familyId, userId,
                                       "INTERNAL_ERROR")
                             /\ UNCHANGED store
                      ELSE IF r.kind # "ok"
                        THEN /\ Answer(p, "addFamilyMember", familyId, userId, r.kind)
                             /\ UNCHANGED store
                      ELSE IF \/ ~ValidMember(r.member)
                              \/ ~JoinIdIndexAllows(members, r.member.id,
                                                    r.member.joinId)
                        THEN /\ Answer(p, "addFamilyMember", familyId, userId,
                                       "INTERNAL_ERROR")
                             /\ UNCHANGED store
                      ELSE /\ members' = members \cup {r.member}
                           /\ nextMember' = nextMember + 1
                           /\ Answer(p, "addFamilyMember", familyId, userId, "ok")
                           /\ UNCHANGED <<families, links, flows, branches>>
  /\ UNCHANGED <<pc, req, loc, result, consumed, issuer>>

\* updateFamilyMember of the relationship, with its response
UpdateFamilyMemberCall(p) ==
  /\ calls[p].pc = "idle"
  /\ \E familyId \in FamilyIds, memberId \in MemberIds, userId \in Principals :
       LET access == FamilyAccess(families, familyId, userId)
           member == { m \in members : m.id = memberId /\ m.familyId = familyId }
           kind == IF access # "ok" THEN access
                   ELSE IF member = {} THEN "NOT_FOUND"
                   ELSE "ok"
       IN  /\ Answer(p, "updateFamilyMember", familyId, userId, kind)
           /\ members' = IF kind = "ok"
                           THEN { IF m.id = memberId
                                    THEN [m EXCEPT !.relationship = "Mother"]
                                    ELSE m : m \in members }
                           ELSE members
  /\ UNCHANGED <<families, links, flows, branches, nextMember, pc, req, loc, result,
                 consumed, issuer>>

\* generateMemberJoinId, with its response
GenerateMemberJoinIdCall(p) ==
  /\ calls[p].pc = "idle"
  /\ \E familyId \in FamilyIds, memberId \in MemberIds, userId \in Principals :
       LET access == FamilyAccess(families, familyId, userId)
           member == { m \in members : m.id = memberId /\ m.familyId = familyId }
       IN  IF access # "ok"
             THEN /\ Answer(p, "generateMemberJoinId", familyId, userId, access)
                  /\ UNCHANGED members
           ELSE IF member = {}
             THEN /\ Answer(p, "generateMemberJoinId", familyId, userId, "NOT_FOUND")
                  /\ UNCHANGED members
           ELSE \E newJoinId \in IssuedCodes(members) :
                  IF newJoinId = Exhausted
                     \/ ~JoinIdIndexAllows(members, memberId, newJoinId)
                    THEN /\ Answer(p, "generateMemberJoinId", familyId, userId,
                                   "INTERNAL_ERROR")
                         /\ UNCHANGED members
                  ELSE /\ members' = { IF m.id = memberId
                                         THEN [m EXCEPT !.joinId = newJoinId,
                                                        !.joinIdUsed = FALSE]
                                         ELSE m : m \in members }
                       /\ Answer(p, "generateMemberJoinId", familyId, userId, "ok")
  /\ UNCHANGED <<families, links, flows, branches, nextMember, pc, req, loc, result,
                 consumed, issuer>>

\* -------------------------------------------------------------- linkFamily
\* POST /api/families/link.  The checks of the handler, each a small operator.
\* The handler without its joinIdUsed check
NeverUsed(member) == FALSE

\* The handler taking root members (Father, Mother) as anchors
RootMemberAnchor(member) == member.relationship \in {"Father", "Mother"}

\* The handler without its own-family check
NeverOwnFamily(linkedFamilyId, userMainFamilyId) == FALSE

\* if (member.joinIdUsed)
JoinIdUsed(member) == member.joinIdUsed

\* if (!member.isFamilyCreator): "Join ID must belong to a family creator"
EligibleAnchor(member) == member.isFamilyCreator

\* if (linkedFamily._id.toString() === userMainFamily._id.toString())
OwnFamily(linkedFamilyId, userMainFamilyId) == linkedFamilyId = userMainFamilyId

\* LinkedFamilies.areFamiliesLinked: an active link of the pair, either way round
areFamiliesLinked(ls, familyId1, familyId2) ==
  \E l \in ls :
    /\ l.status = "active"
    /\ \/ l.mainFamilyId = familyId1 /\ l.linkedFamilyId = familyId2
       \/ l.mainFamilyId = familyId2 /\ l.linkedFamilyId = familyId1

Rejected(kind) ==
  [error |-> kind, member |-> NoId, linkedFamily |-> NoId, userMainFamily |-> NoId]

\* The handler's reads and early returns, in the order of the code; "none"
\* with the documents it found when every check passes.
\*   InvalidJoinCode      404 NOT_FOUND 'Invalid join ID'
\*   JoinCodeAlreadyUsed  400 CONFLICT 'Join ID has already been used'
\*   JoinCodeNotEligible  400 AUTHORIZATION_ERROR 'Join ID must belong to a family creator'
\*   FamilyNotFound       404 NOT_FOUND 'Family not found'
\*   NoMainFamily         404 NOT_FOUND 'You must have a main family to link with others'
\*   SelfLinkForbidden    400 CONFLICT 'Cannot link to your own family'
\*   AlreadyLinked        400 CONFLICT 'Families are already linked'
LinkPreconditions(fs, ms, ls, joinId, userId) ==
  LET found == findByJoinId(ms, joinId)
      member == CHOOSE m \in found : TRUE
      userMainFamily == findMainFamilyByUser(fs, userId)
  IN  IF found = {} THEN Rejected("InvalidJoinCode")
      ELSE IF JoinIdUsed(member) THEN Rejected("JoinCodeAlreadyUsed")
      ELSE IF ~EligibleAnchor(member) THEN Rejected("JoinCodeNotEligible")
      ELSE IF ~ \E f \in fs : f.id = member.familyId THEN Rejected("FamilyNotFound")
      ELSE IF userMainFamily = NoId THEN Rejected("NoMainFamily")
      ELSE IF OwnFamily(member.familyId, userMainFamily)
        THEN Rejected("SelfLinkForbidden")
      ELSE IF areFamiliesLinked(ls, userMainFamily, member.familyId)
        THEN Rejected("AlreadyLinked")
      ELSE [error |-> "none", member |-> member.id,
            linkedFamily |-> member.familyId, userMainFamily |-> userMainFamily]

\* The request arrives and runs up to session.startTransaction().
LinkCheck(p) ==
  /\ pc[p] = "idle"
  /\ \E joinId \in Codes, userId \in Principals :
       LET r == LinkPreconditions(families, members, links, joinId, userId)
       IN  /\ req' = [req EXCEPT ![p] = [joinId |-> joinId, userId |-> userId]]
           /\ IF r.error # "none"
                THEN /\ pc' = [pc EXCEPT ![p] = "done"]
                     /\ result' = [result EXCEPT ![p].kind = r.error]
                     /\ UNCHANGED loc
                ELSE /\ pc' = [pc EXCEPT ![p] = "mark"]
                     /\ loc' = [loc EXCEPT ![p] =
                          [member |-> r.member, linkedFamily |-> r.linkedFamily,
                           userMainFamily |-> r.userMainFamily, txn |-> {}]]
                     /\ UNCHANGED result
  /\ UNCHANGED <<store, calls, consumed, issuer>>

\* catch (error) { await session.abortTransaction(); ... throw error } and the
\* outer catch: 500 INTERNAL_ERROR.  The staged writes are dropped; what was
\* written without the session stays.
LinkAbort(p) ==
  /\ pc' = [pc EXCEPT ![p] = "done"]
  /\ loc' = [loc EXCEPT ![p].txn = {}]
  /\ result' = [result EXCEPT ![p].kind = "InternalError"]

\* await member.markJoinIdAsUsed(): this.save(), no session
LinkMark(p) ==
  /\ pc[p] = "mark"
  /\ members' = { IF m.id = loc[p].member THEN [m EXCEPT !.joinIdUsed = TRUE]
                  ELSE m : m \in members }
  /\ pc' = [pc EXCEPT ![p] = "createLink"]
  /\ UNCHANGED <<families, links, flows, branches, nextMember, req, loc, result,
                 calls, consumed, issuer>>

\* await LinkedFamilies.createLink(...): this.create(), no session
LinkCreate(p) ==
  /\ pc[p] = "createLink"
  /\ IF LinkIndexAllows(links, loc[p].userMainFamily, loc[p].linkedFamily)
       THEN /\ links' = links \cup
                 {[mainFamilyId |-> loc[p].userMainFamily,
                   linkedFamilyId |-> loc[p].linkedFamily,
                   linkedBy |-> req[p].userId, status |-> "active"]}
            /\ pc' = [pc EXCEPT ![p] = "mirrorLinked"]
            /\ UNCHANGED <<loc, result>>
       ELSE /\ LinkAbort(p)
            /\ UNCHANGED links
  /\ UNCHANGED <<families, members, flows, branches, nextMember, req, calls,
                 consumed, issuer>>

\* new FamilyMember({...}) of the two loops: a copy of the display fields in
\* the other family; joinId is not set.
Mirror(src, familyId, originalFamilyId) ==
  [NewMember(NoId, familyId, NoCode, src.relationship, FALSE)
     EXCEPT !.isLinkedMember = TRUE, !.originalFamilyId = originalFamilyId,
            !.linkedFrom = src.id]

\* session.commitTransaction(): the staged mirrors get their _id and their
\* originals the linkedTo that names them.
RECURSIVE CommitMirrors(_, _, _)
CommitMirrors(ms, staged, next) ==
  IF staged = {} THEN [members |-> ms, nextMember |-> next]
  ELSE LET x == CHOOSE y \in staged : \A z \in staged : y.linkedFrom <= z.linkedFrom
           stored == [x EXCEPT !.id = next]
       IN  CommitMirrors(
             { IF m.id = x.linkedFrom THEN [m EXCEPT !.linkedTo = next] ELSE m :
                 m \in ms } \cup {stored},
             staged \ {x}, next + 1)

\* First loop: FamilyMember.find({ familyId: linkedFamily._id }) and one
\* mirror per member but the anchor, saved with the session.
LinkMirrorLinked(p) ==
  /\ pc[p] = "mirrorLinked"
  /\ LET linkedFamilyMembers == { m \in members : m.familyId = loc[p].linkedFamily }
         sources == { m \in linkedFamilyMembers : m.id # loc[p].member }
         mirrors == { Mirror(m, loc[p].userMainFamily, loc[p].linkedFamily) :
                        m \in sources }
     IN  IF \E x \in mirrors : ~ValidMember(x)
           THEN LinkAbort(p)
           ELSE /\ pc' = [pc EXCEPT ![p] = "mirrorUser"]
                /\ loc' = [loc EXCEPT ![p].txn = mirrors]
                /\ result' = [result EXCEPT
                     ![p].linkedFamilyMembers = Cardinality(linkedFamilyMembers),
                     ![p].linkedMembers = Cardinality(mirrors)]
  /\ UNCHANGED <<store, req, calls, consumed, issuer>>

\* Second loop: FamilyMember.find({ familyId: userMainFamily._id }), read
\* outside the session, one mirror per member whose _id is not the anchor's;
\* then commitTransaction and the 200 response.
LinkMirrorUser(p) ==
  /\ pc[p] = "mirrorUser"
  /\ LET userFamilyMembers == { m \in members : m.familyId = loc[p].userMainFamily }
         sources == { m \in userFamilyMembers : m.id # loc[p].member }
         mirrors == { Mirror(m, loc[p].linkedFamily, loc[p].userMainFamily) :
                        m \in sources }
         done == CommitMirrors(members, loc[p].txn \cup mirrors, nextMember)
     IN  IF \E x \in mirrors : ~ValidMember(x)
           THEN /\ LinkAbort(p)
                /\ UNCHANGED <<members, nextMember, consumed>>
           ELSE /\ members' = done.members
                /\ nextMember' = done.nextMember
                /\ pc' = [pc EXCEPT ![p] = "done"]
                /\ loc' = [loc EXCEPT ![p].txn = {}]
                /\ result' = [result EXCEPT
                     ![p].kind = "ok",
                     ![p].userFamilyMembers = Cardinality(userFamilyMembers),
                     ![p].userLinkedMembers = Cardinality(mirrors)]
                /\ consumed' = consumed \cup {req[p].joinId}
  /\ UNCHANGED <<families, links, flows, branches, req, calls, issuer>>

LinkFamily(ps) ==
  \E p \in ps :
    \/ LinkCheck(p)
    \/ LinkMark(p)
    \/ LinkCreate(p)
    \/ LinkMirrorLinked(p)
    \/ LinkMirrorUser(p)

\* The response is sent; the client's next request starts from scratch.
LinkReturn(p) ==
  /\ pc[p] = "done"
  /\ pc' = [pc EXCEPT ![p] = "idle"]
  /\ req' = [req EXCEPT ![p] = NoReq]
  /\ loc' = [loc EXCEPT ![p] = NoLoc]
  /\ result' = [result EXCEPT ![p] = NoResult]
  /\ UNCHANGED <<store, calls, consumed, issuer>>

\* ------------------------------------------ addFamilyMember, step by step
\* The request up to `const joinId = await generateJoinId()`: the access
\* checks and the issuer's run against the members stored at that moment.
AddIssue(p) ==
  /\ calls[p].pc = "idle"
  /\ nextMember <= MaxMembers
  /\ \E familyId \in FamilyIds, userId \in Principals, relationship \in Relationships :
       LET access == FamilyAccess(families, familyId, userId)
           call == [NoCall EXCEPT !.op = "addFamilyMember", !.userId = userId,
                                  !.familyId = familyId,
                                  !.relationship = relationship]
       IN  IF access # "ok"
             THEN calls' = [calls EXCEPT ![p] =
                              [call EXCEPT !.pc = "done", !.kind = access]]
             ELSE \E joinId \in IssuedCodes(members) :
                    calls' = [calls EXCEPT ![p] =
                      IF joinId = Exhausted
                        THEN [call EXCEPT !.pc = "done", !.kind = "InternalError"]
                        ELSE [call EXCEPT !.pc = "create", !.joinId = joinId]]
  /\ UNCHANGED <<store, pc, req, loc, result, consumed, issuer>>

\* await FamilyMember.create({...}) with the code issued before, and the
\* response: 201, or the catch block's 500 when create() threw.
AddCreate(p) ==
  /\ calls[p].pc = "create"
  /\ LET r == AddedMember(members, branches, nextMember, calls[p].familyId,
                          calls[p].joinId, calls[p].relationship, NoType, 1, NoId)
     IN  IF ~ValidMember(r.member)
            \/ ~JoinIdIndexAllows(members, r.member.id, r.member.joinId)
           THEN /\ calls' = [calls EXCEPT ![p].pc = "done",
                                          ![p].kind = "InternalError"]
                /\ UNCHANGED store
           ELSE /\ members' = members \cup {r.member}
                /\ nextMember' = nextMember + 1
                /\ calls' = [calls EXCEPT ![p].pc = "done", ![p].kind = "ok"]
                /\ UNCHANGED <<families, links, flows, branches>>
  /\ UNCHANGED <<pc, req, loc, result, consumed, issuer>>

AddFamilyMemberSteps(ps) == \E p \in ps : AddIssue(p) \/ AddCreate(p)

\* The response is sent; the task takes its next request.
CallReturn(p) ==
  /\ calls[p].pc = "done"
  /\ calls' = [calls EXCEPT ![p] = NoCall]
  /\ UNCHANGED <<store, pc, req, loc, result, consumed, issuer>>

\* ------------------- createFamily and initializeFamilyCreation, step by step
\* The request up to Family.create(): createFamily's main-family check or
\* initializeFamilyCreation's active-flow check, then the creator join code.
FamilyCheck(p) ==
  /\ calls[p].pc = "idle"
  /\ Cardinality(families) < MaxFamilies
  /\ \E op \in {"createFamily", "initializeFamilyCreation"}, userId \in Principals :
       LET call == [NoCall EXCEPT !.op = op, !.userId = userId]
           refused ==
             IF op = "createFamily"
               THEN findMainFamilyByUser(families, userId) # NoId
               ELSE \E fl \in flows : fl.userId = userId /\ ~fl.setupCompleted
       IN  IF refused
             THEN calls' = [calls EXCEPT ![p] =
                              [call EXCEPT !.pc = "done", !.kind = "CONFLICT"]]
             ELSE \E joinId \in IssuedCodes(members) :
                    calls' = [calls EXCEPT ![p] =
                      IF joinId = Exhausted
                        THEN [call EXCEPT !.pc = "done", !.kind = "InternalError"]
                        ELSE [call EXCEPT !.pc = "find", !.joinId = joinId]]
  /\ UNCHANGED <<store, pc, req, loc, result, consumed, issuer>>

\* familySchema.pre('save'): await this.constructor.find({ creatorId,
\* isMainFamily: true, _id: { $ne: this._id } })
FamilyFind(p) ==
  /\ calls[p].pc = "find"
  /\ calls' = [calls EXCEPT
       ![p].pc = "save",
       ![p].others = { f.id : f \in { g \in families :
                                        g.creatorId = calls[p].userId
                                        /\ g.isMainFamily } }]
  /\ UNCHANGED <<store, pc, req, loc, result, consumed, issuer>>

\* The rest of the hook and of the handler: updateMany on the families the
\* find returned, the insert of the family, then the creator member
\* (createFamily) or the creation flow (initializeFamilyCreation).
FamilySave(p) ==
  /\ calls[p].pc = "save"
  /\ LET family == [id |-> Cardinality(families) + 1,
                    creatorId |-> calls[p].userId,
                    creatorJoinId |-> calls[p].joinId,
                    isMainFamily |-> TRUE]
         demoted == { IF g.id \in calls[p].others
                        THEN [g EXCEPT !.isMainFamily = FALSE] ELSE g :
                        g \in families }
         creatorMember == NewMember(nextMember, family.id, calls[p].joinId,
                                    "Creator", TRUE)
     IN  IF ~CreatorJoinIdIndexAllows(families, calls[p].joinId)
           THEN /\ families' = demoted
                /\ calls' = [calls EXCEPT ![p].pc = "done",
                                          ![p].kind = "InternalError"]
                /\ UNCHANGED <<members, nextMember, flows>>
         ELSE IF calls[p].op = "createFamily"
           THEN /\ families' = demoted \cup {family}
                /\ IF ValidMember(creatorMember)
                      /\ JoinIdIndexAllows(members, creatorMember.id,
                                           creatorMember.joinId)
                     THEN /\ members' = members \cup {creatorMember}
                          /\ nextMember' = nextMember + 1
                          /\ calls' = [calls EXCEPT ![p].pc = "done",
                                                    ![p].kind = "ok"]
                     ELSE /\ calls' = [calls EXCEPT ![p].pc = "done",
                                                    ![p].kind = "InternalError"]
                          /\ UNCHANGED <<members, nextMember>>
                /\ UNCHANGED flows
         ELSE /\ families' = demoted \cup {family}
              /\ flows' = flows \cup {NewFlow(calls[p].userId, family.id)}
              /\ calls' = [calls EXCEPT ![p].pc = "done", ![p].kind = "ok"]
              /\ UNCHANGED <<members, nextMember>>
  /\ UNCHANGED <<links, branches, pc, req, loc, result, consumed, issuer>>

FamilySteps(ps) == \E p \in ps : FamilyCheck(p) \/ FamilyFind(p) \/ FamilySave(p)

\* -------------------------------------------------- setupParents, step by step
\* The codes and draws of the issuer when four members are to be stored
WideCodes == 1..(NumCodes + 1)

WideDrawSeqs ==
  { [i \in 1..maxAttempts |-> IF i < maxAttempts THEN a ELSE b] :
      a \in WideCodes, b \in WideCodes }

WideIssuedCodes(ms) == { generateJoinId(d, ms) : d \in WideDrawSeqs }

\* familyBranchSchema.pre('save'): findOne({ familyId, branchOrder })
BranchOrderTaken(bs, familyId, branchOrder) ==
  \E b \in bs : b.familyId = familyId /\ b.branchOrder = branchOrder

\* familyBranchSchema.index({ familyId: 1, motherId: 1 }, { unique: true })
BranchIndexAllows(bs, familyId, motherId) ==
  ~ \E b \in bs : b.familyId = familyId /\ b.motherId = motherId

\* The request with one mother, up to the first create: the ownership check
\* and the two validations.
SetupCheck(p) ==
  /\ calls[p].pc = "idle"
  /\ nextMember + 1 <= MaxMembers
  /\ \E familyId \in FamilyIds, userId \in Principals, fatherBirthYear \in Years,
        motherData \in MotherInputs :
       LET call == [NoCall EXCEPT !.op = "setupParents", !.userId = userId,
                                  !.familyId = familyId,
                                  !.fatherBirthYear = fatherBirthYear,
                                  !.birthYear = motherData.birthYear,
                                  !.order = motherData.spouseOrder]
           kind == IF FamilyAccess(families, familyId, userId) # "ok"
                     THEN "AUTHORIZATION_ERROR"
                   ELSE IF MotherOlderThanFather(fatherBirthYear, <<motherData>>)
                           \/ ~SequentialSpouseOrders(<<motherData>>)
                     THEN "VALIDATION_ERROR"
                   ELSE "ok"
       IN  calls' = [calls EXCEPT ![p] =
             IF kind = "ok" THEN [call EXCEPT !.pc = "members"]
             ELSE [call EXCEPT !.pc = "done", !.kind = kind]]
  /\ UNCHANGED <<store, pc, req, loc, result, consumed, issuer>>

\* FamilyMember.create of the father, then of the mother
SetupMembers(p) ==
  /\ calls[p].pc = "members"
  /\ \E fatherJoinId \in WideIssuedCodes(members) :
       LET fatherMember == WithTree(
                             NewMember(nextMember, calls[p].familyId, fatherJoinId,
                                       "Father", FALSE),
                             calls[p].fatherBirthYear, "father", NoId, NoId, NoOrder)
       IN  IF fatherJoinId = Exhausted
              \/ ~JoinIdIndexAllows(members, fatherMember.id, fatherJoinId)
             THEN /\ calls' = [calls EXCEPT ![p].pc = "done",
                                            ![p].kind = "InternalError"]
                  /\ UNCHANGED <<members, nextMember>>
           ELSE \E joinId \in WideIssuedCodes(members \cup {fatherMember}) :
                  LET motherMember == WithTree(
                                        NewMember(nextMember + 1, calls[p].familyId,
                                                  joinId,
                                                  WifeRelationship(calls[p].order),
                                                  FALSE),
                                        calls[p].birthYear, "mother", NoId, NoId,
                                        calls[p].order)
                  IN  IF joinId = Exhausted
                         \/ ~JoinIdIndexAllows(members \cup {fatherMember},
                                               motherMember.id, joinId)
                        THEN /\ members' = members \cup {fatherMember}
                             /\ nextMember' = nextMember + 1
                             /\ calls' = [calls EXCEPT ![p].pc = "done",
                                                       ![p].kind = "InternalError"]
                      ELSE /\ members' = members \cup {fatherMember, motherMember}
                           /\ nextMember' = nextMember + 2
                           /\ calls' = [calls EXCEPT ![p].pc = "branchFind",
                                                     ![p].memberId = motherMember.id]
  /\ UNCHANGED <<families, links, flows, branches, pc, req, loc, result, consumed,
                 issuer>>

\* FamilyBranch.create, the pre('save') hook: the findOne on the branch order
\* and next(new Error('Branch order ... already exists in this family'))
BranchFind(p) ==
  /\ calls[p].pc = "branchFind"
  /\ calls' = [calls EXCEPT ![p] =
       IF BranchOrderTaken(branches, calls[p].familyId, calls[p].order)
         THEN [@ EXCEPT !.pc = "done", !.kind = "InternalError"]
         ELSE [@ EXCEPT !.pc = "branchInsert"]]
  /\ UNCHANGED <<store, pc, req, loc, result, consumed, issuer>>

\* FamilyBranch.create, the insert; then motherMember.branchId, the flow's
\* markParentsSetupComplete and the 201 response.
BranchInsert(p) ==
  /\ calls[p].pc = "branchInsert"
  /\ LET branch == [id |-> Cardinality(branches) + 1,
                    familyId |-> calls[p].familyId,
                    motherId |-> calls[p].memberId,
                    branchOrder |-> calls[p].order]
     IN  IF ~BranchIndexAllows(branches, branch.familyId, branch.motherId)
           THEN /\ calls' = [calls EXCEPT ![p].pc = "done",
                                          ![p].kind = "InternalError"]
                /\ UNCHANGED <<members, branches, flows>>
           ELSE /\ branches' = branches \cup {branch}
                /\ members' = { IF m.id = calls[p].memberId
                                  THEN [m EXCEPT !.branchId = branch.id]
                                  ELSE m : m \in members }
                /\ flows' = { IF fl.familyId = calls[p].familyId
                                THEN SaveFlow([fl EXCEPT !.parentsSetup = TRUE])
                                ELSE fl : fl \in flows }
                /\ calls' = [calls EXCEPT ![p].pc = "done", ![p].kind = "ok"]
  /\ UNCHANGED <<families, links, nextMember, pc, req, loc, result, consumed,
                 issuer>>

SetupParentsSteps(ps) ==
  \E p \in ps :
    \/ SetupCheck(p)
    \/ SetupMembers(p)
    \/ BranchFind(p)
    \/ BranchInsert(p)

\* ---------------------------------------------------------- a lone issuer run
\* generateJoinId() called against the current members with the draws d
Issue ==
  \E d \in IssuerDraws :
    /\ draws' = d
    /\ issued' = generateJoinId(d, members)
    /\ UNCHANGED <<store, tasks, consumed>>

\* ----------------------------------------------------------- specifications
\* Families are created and filled, and link requests run concurrently.
Next ==
  \/ CreateFamily
  \/ InitializeFamilyCreation
  \/ AddFamilyMember
  \/ LinkFamily(Procs)

Spec == Init /\ [][Next]_vars

\* One client sends link requests one after the other while join codes are
\* regenerated.
NextRegen ==
  \/ CreateFamily
  \/ InitializeFamilyCreation
  \/ GenerateMemberJoinId
  \/ LinkFamily({1})
  \/ LinkReturn(1)

SpecRegen == Init /\ [][NextRegen]_vars

\* Every handler that writes a member, with one link request.
NextStore ==
  \/ CreateFamily
  \/ InitializeFamilyCreation
  \/ AddFamilyMember
  \/ SetupParentsSameYear
  \/ GenerateMemberJoinId
  \/ LinkFamily({1})

SpecStore == Init /\ [][NextStore]_vars

\* The issuer run against the members the handlers have stored.
NextIssuer ==
  \/ CreateFamily
  \/ AddFamilyMember
  \/ Issue

SpecIssuer == Init /\ [][NextIssuer]_vars

\* Members are added by concurrent requests.
NextAdd ==
  \/ CreateFamily
  \/ InitializeFamilyCreation
  \/ AddFamilyMemberSteps(Procs)
  \/ \E p \in Procs : CallReturn(p)

SpecAdd == Init /\ [][NextAdd]_vars

\* Families are created by concurrent requests.
NextMain ==
  \/ FamilySteps(Procs)
  \/ \E p \in Procs : CallReturn(p)

SpecMain == Init /\ [][NextMain]_vars

\* Parents are set up by concurrent requests.
NextBranch ==
  \/ InitializeFamilyCreation
  \/ SetupParentsSteps(Procs)

SpecBranch == Init /\ [][NextBranch]_vars

\* Members are added and deleted, one request at a time.
NextDelete ==
  \/ CreateFamily
  \/ AddFamilyMember
  \/ DeleteFamilyMember(1)
  \/ CallReturn(1)

SpecDelete == Init /\ [][NextDelete]_vars

\* The handlers that build the tree of a family made by the guided flow.
NextTree ==
  \/ InitializeFamilyCreation
  \/ SetupParents
  \/ AddTreeMember

SpecTree == Init /\ [][NextTree]_vars

\* The guided flow with its members added and updated, every request that
\* can change the store being served sooner or later.
NextGuided ==
  \/ InitializeFamilyCreation
  \/ SetupParentsSameYear
  \/ AddFamilyMember
  \/ UpdateFamilyMember

SpecGuided == Init /\ [][NextGuided]_vars

SpecGuidedFair ==
  /\ SpecGuided
  /\ WF_vars(InitializeFamilyCreation)
  /\ WF_vars(SetupParentsSameYear)
  /\ WF_vars(AddFamilyMember)
  /\ WF_vars(UpdateFamilyMember)

\* Members of a family made by the guided flow are added and updated.
NextEdit ==
  \/ InitializeFamilyCreation
  \/ AddTreeMember
  \/ UpdateFamilyMember

SpecEdit == Init /\ [][NextEdit]_vars

\* Members of a family made by the guided flow are added and deleted.
NextRemove ==
  \/ InitializeFamilyCreation
  \/ AddTreeMember
  \/ DeleteFamilyMember(1)
  \/ CallReturn(1)

SpecRemove == Init /\ [][NextRemove]_vars

\* The guided flow with the setupParents requests and responses kept.
NextOrders ==
  \/ InitializeFamilyCreation
  \/ SetupParentsCall(1)
  \/ CallReturn(1)

SpecOrders == Init /\ [][NextOrders]_vars

\* The handlers that check the caller against the family's creator, with
\* their responses.
NextAccess ==
  \/ InitializeFamilyCreation
  \/ AddFamilyMemberCall(1)
  \/ UpdateFamilyMemberCall(1)
  \/ DeleteFamilyMember(1)
  \/ GenerateMemberJoinIdCall(1)
  \/ SetupParentsCallOf(1, {1}, { mothers \in MotherLists :
                                    \A i \in 1..Len(mothers) :
                                      mothers[i].birthYear = 1 })
  \/ CallReturn(1)

SpecAccess == Init /\ [][NextAccess]_vars

\* Members are added and updated as living or deceased.
NextLate ==
  \/ InitializeFamilyCreation
  \/ AddLateMember
  \/ UpdateLateMember

SpecLate == Init /\ [][NextLate]_vars

\* The mark-step-complete methods of the creation flows, in any order.
NextMarks ==
  \/ InitializeFamilyCreation
  \/ MarkParentsSetupComplete
  \/ MarkChildrenSetupComplete
  \/ MarkBranchesCreated

SpecMarks == Init /\ [][NextMarks]_vars

\* Every method that stores a creation flow.
NextFlow ==
  \/ NextMarks
  \/ ResetToStep

SpecFlow == Init /\ [][NextFlow]_vars

\* --------------------------------------------------------------- properties
\* Task p's linkFamily request has just run its precondition checks.
LinkChecked(p) == pc[p] = "idle" /\ pc'[p] # "idle"

\* The member that holds joinId
Owner(joinId) == CHOOSE m \in members : m.joinId = joinId

\* C1: when a linkFamily call that passed its preconditions fails afterwards
\* (500), with no other link request running, the store is as before the
\* call: the anchor's code is unconsumed, the pair has no relation, and the
\* same call passes the preconditions again.
RolledBackOnFailure ==
  \A p \in Procs :
    ( /\ pc[p] = "done"
      /\ result[p].kind = "InternalError"
      /\ \A q \in Procs \ {p} : pc[q] = "idle" )
    => /\ ~MemberById(members, loc[p].member).joinIdUsed
       /\ ~areFamiliesLinked(links, loc[p].userMainFamily, loc[p].linkedFamily)
       /\ LinkPreconditions(families, members, links,
                            req[p].joinId, req[p].userId).error = "none"

\* C2: two linkFamily calls that use the same join code never both succeed.
OneSuccessPerCode ==
  \A p, q \in Procs :
    ( /\ p # q
      /\ pc[p] = "done" /\ result[p].kind = "ok"
      /\ pc[q] = "done" /\ result[q].kind = "ok" )
    => req[p].joinId # req[q].joinId

\* C3: a linkFamily call with a code that an earlier successful call consumed
\* is rejected with JoinCodeAlreadyUsed, whatever happened in between.
ConsumedCodeRejected ==
  [][ \A p \in Procs :
        (LinkChecked(p) /\ req'[p].joinId \in consumed)
        => (pc'[p] = "done" /\ result'[p].kind = "JoinCodeAlreadyUsed") ]_vars

\* C4: two families have at most one active relation between them, whichever
\* of the two is recorded as the main one.
OneRelationPerPair ==
  \A l1, l2 \in links :
    ( /\ l1.status = "active" /\ l2.status = "active"
      /\ {l1.mainFamilyId, l1.linkedFamilyId} = {l2.mainFamilyId, l2.linkedFamilyId} )
    => l1 = l2

MirrorCounts ==
  \A p \in Procs :
    (pc[p] = "done" /\ result[p].kind = "ok")
    => /\ result[p].linkedMembers = result[p].linkedFamilyMembers - 1
       /\ result[p].userLinkedMembers = result[p].userFamilyMembers - 1

\* The first precondition of linkFamilies that fails for (joinId, userId) in
\* the current store, in the documented order; "none" when all hold.
EarliestFailure(joinId, userId) ==
  LET owners == { m \in members : m.joinId = joinId }
      mains == { f \in families : f.creatorId = userId /\ f.isMainFamily }
  IN  IF owners = {} THEN "InvalidJoinCode"
      ELSE IF Owner(joinId).joinIdUsed THEN "JoinCodeAlreadyUsed"
      ELSE IF ~Owner(joinId).isFamilyCreator THEN "JoinCodeNotEligible"
      ELSE IF mains = {} THEN "NoMainFamily"
      ELSE IF \E f \in mains : f.id = Owner(joinId).familyId THEN "SelfLinkForbidden"
      ELSE IF \E l \in links, f \in mains :
                {l.mainFamilyId, l.linkedFamilyId} = {f.id, Owner(joinId).familyId}
        THEN "AlreadyLinked"
      ELSE "none"

\* C7: a linkFamily call of which a precondition fails answers with the error
\* of the earliest failing one and writes nothing; the call goes on to its
\* writes only when all preconditions hold.
EarliestFailureReported ==
  [][ \A p \in Procs :
        LinkChecked(p)
        => LET e == EarliestFailure(req'[p].joinId, req'[p].userId)
           IN  /\ store' = store
               /\ e # "none" => (pc'[p] = "done" /\ result'[p].kind = e)
               /\ e = "none" => pc'[p] = "mark" ]_vars

\* C7 witness: a call was rejected by the last precondition.
RejectedAlreadyLinked ==
  \E p \in Procs : pc[p] = "done" /\ result[p].kind = "AlreadyLinked"

\* The code belongs to a member of the caller's own main family.
OwnCode(joinId, userId) ==
  \E m \in members :
    m.joinId = joinId /\ m.familyId = findMainFamilyByUser(families, userId)

\* C8 as stated: a call with a code of the caller's own main family is
\* rejected with SelfLinkForbidden.
OwnCodeSelfLinkForbidden ==
  [][ \A p \in Procs :
        (LinkChecked(p) /\ OwnCode(req'[p].joinId, req'[p].userId))
        => (pc'[p] = "done" /\ result'[p].kind = "SelfLinkForbidden") ]_vars

\* C8 as the handler has it: no stored relation links a family to itself; a
\* call with a code of the caller's own main family is rejected and writes
\* nothing, with JoinCodeAlreadyUsed when the code is consumed, with
\* JoinCodeNotEligible when its owner is not the family's creator, and with
\* SelfLinkForbidden otherwise.
OwnCodeRejected ==
  /\ [](\A l \in links : l.mainFamilyId # l.linkedFamilyId)
  /\ [][ \A p \in Procs :
           (LinkChecked(p) /\ OwnCode(req'[p].joinId, req'[p].userId))
           => /\ pc'[p] = "done"
              /\ store' = store
              /\ result'[p].kind =
                   (IF Owner(req'[p].joinId).joinIdUsed THEN "JoinCodeAlreadyUsed"
                    ELSE IF ~Owner(req'[p].joinId).isFamilyCreator
                      THEN "JoinCodeNotEligible"
                    ELSE "SelfLinkForbidden") ]_vars

\* C8 witness: a call with the code of the caller's own creator member was
\* rejected as a self link.
RejectedSelfLink ==
  \E p \in Procs :
    /\ pc[p] = "done"
    /\ result[p].kind = "SelfLinkForbidden"
    /\ OwnCode(req[p].joinId, req[p].userId)

\* C9: no two member records hold the same join code.
UniqueJoinCodes ==
  \A m1, m2 \in members : m1.id # m2.id => m1.joinId # m2.joinId

\* C9 witness: createFamily stored a family whose creator member the index
\* turned away, the supplied code being held by another member.
DuplicateCodeTurnedAway ==
  \E f \in families :
    /\ ~ \E fl \in flows : fl.familyId = f.id
    /\ ~ \E m \in members : m.familyId = f.id /\ m.isFamilyCreator
    /\ \E m \in members : m.joinId = f.creatorJoinId
    /\ Cardinality(members) >= 2

\* C10: the issuer returns a code no member holds whenever one of its
\* maxAttempts draws is unused, and gives up only when every draw collides.
ExhaustedOnlyWhenAllCollide ==
  [][ issuer' # issuer
      => LET unused == { i \in 1..maxAttempts :
                           \A m \in members : m.joinId # draws'[i] }
         IN  /\ unused # {} => issued' \in Codes
             /\ issued' = Exhausted => unused = {}
             /\ issued' # Exhausted => \A m \in members : m.joinId # issued' ]_vars

\* C11: an addFamilyMember call whose issued code is, by the time of its
\* insert, held by a member another call stored in between does not answer
\* with an error: it completes, and its member gets a code no other holds.
CollisionReissued ==
  [][ \A p \in Procs :
        ( /\ calls[p].pc = "create"
          /\ calls'[p].pc = "done"
          /\ \E m \in members : m.joinId = calls[p].joinId )
        => /\ calls'[p].kind = "ok"
           /\ \E m \in members' \ members :
                \A x \in members : x.joinId # m.joinId ]_vars

\* C12: a family never has two creator members, and a creator member once
\* stored stays stored as the creator of its family: a deleteFamilyMember
\* call that names it answers CONFLICT (ProtectedMemberDeletion) and deletes
\* nothing.
CreatorKept ==
  /\ [](\A m1, m2 \in members :
          (m1.isFamilyCreator /\ m2.isFamilyCreator /\ m1.familyId = m2.familyId)
          => m1.id = m2.id)
  /\ [][ /\ \A m \in members : m.isFamilyCreator
             => \E x \in members' :
                  x.id = m.id /\ x.isFamilyCreator /\ x.familyId = m.familyId
         /\ \A p \in Procs :
              ( /\ calls[p].pc = "idle"
                /\ calls'[p].op = "deleteFamilyMember"
                /\ FamilyAccess(families, calls'[p].familyId, calls'[p].userId) = "ok"
                /\ \E m \in members : /\ m.id = calls'[p].memberId
                                       /\ m.familyId = calls'[p].familyId
                                       /\ m.isFamilyCreator )
              => (calls'[p].kind = "CONFLICT" /\ members' = members) ]_vars

\* C12 witness: a deleteFamilyMember call on the creator member of a family
\* that has another member was answered CONFLICT.
CreatorDeletionRefused ==
  /\ calls[1].op = "deleteFamilyMember"
  /\ calls[1].kind = "CONFLICT"
  /\ \E m \in members : /\ m.id = calls[1].memberId /\ m.isFamilyCreator
  /\ \E m \in members : /\ m.familyId = calls[1].familyId /\ ~m.isFamilyCreator

\* C13: every stored family has exactly one creator member, after createFamily,
\* after a createFamily whose member insert failed, and after the guided
\* initialization alike.
FamilyHasCreator ==
  \A f \in families :
    Cardinality({ m \in members : m.familyId = f.id /\ m.isFamilyCreator }) = 1

\* C14: a principal never has two families marked as main, however the
\* createFamily and initializeFamilyCreation calls are ordered and interleaved.
OneMainFamily ==
  \A f1, f2 \in families :
    (f1.creatorId = f2.creatorId /\ f1.isMainFamily /\ f2.isMainFamily)
    => f1.id = f2.id

\* C15: every child that names a mother was born strictly after her, whatever
\* addFamilyMember and updateFamilyMember calls came before.
ChildBornAfterMother ==
  \A c \in members :
    c.motherId # NoId
    => \A m \in members : m.id = c.motherId => c.birthYear > m.birthYear

\* C16: every child that names a mother names a stored member of its own
\* family whose role is mother, and carries the id of that mother's branch.
ChildOfMotherBranch ==
  \A c \in members :
    c.motherId # NoId
    => \E m \in members :
         /\ m.id = c.motherId
         /\ m.familyId = c.familyId
         /\ m.parentType = "mother"
         /\ \E b \in branches : b.motherId = m.id /\ c.branchId = b.id

\* C17: every member whose role is mother has exactly one branch in her
\* family, and every branch names a stored mother of its family.
MotherHasOneBranch ==
  /\ \A m \in members :
       m.parentType = "mother"
       => Cardinality({ b \in branches :
                          b.motherId = m.id /\ b.familyId = m.familyId }) = 1
  /\ \A b \in branches :
       \E m \in members :
         m.id = b.motherId /\ m.familyId = b.familyId /\ m.parentType = "mother"

\* C18: no two branches of one family have the same branchOrder, also when
\* they are created by concurrent requests.
UniqueBranchOrders ==
  \A b1, b2 \in branches :
    (b1.familyId = b2.familyId /\ b1.branchOrder = b2.branchOrder)
    => b1.id = b2.id

\* C19: in every family the spouseOrder values of the members whose role is
\* mother are exactly 1..N, N being their number.
SpouseOrdersSequential ==
  \A f \in families :
    LET mothers == { m \in members : m.familyId = f.id /\ m.parentType = "mother" }
    IN  { m.spouseOrder : m \in mothers } = 1..Cardinality(mothers)

\* C20: a setupParents call stores a father and mothers only when the father
\* was born strictly before every mother it stores.
FatherBornBeforeMothers ==
  [][ \A m \in members' \ members :
        m.spouseOrder # NoOrder
        => \A f \in members' \ members :
             f.parentType = "father" => f.birthYear < m.birthYear ]_vars

\* C21: a setupParents request from the family's creator whose mothers are
\* not born before the father passes the spouse-order check exactly when the
\* spouse orders sent, in whatever order, are exactly 1..n; a request that
\* fails it is answered VALIDATION_ERROR and no member, branch or creation
\* flow changes.
SpouseOrdersChecked ==
  [][\A p \in Procs :
       (calls[p].pc = "idle" /\ calls'[p].op = "setupParents"
          /\ calls'[p].pc = "done")
       => LET sent == calls'[p]
              orders == { sent.mothers[i].spouseOrder :
                            i \in 1..Len(sent.mothers) }
              sequential == orders = 1..Len(sent.mothers)
              creator == \E f \in families : /\ f.id = sent.familyId
                                             /\ f.creatorId = sent.userId
              ages == \A i \in 1..Len(sent.mothers) :
                        sent.mothers[i].birthYear >= sent.fatherBirthYear
          IN  (creator /\ ages)
              => /\ sequential <=> sent.kind \in {"ok", "INTERNAL_ERROR"}
                 /\ ~sequential => /\ sent.kind = "VALIDATION_ERROR"
                                   /\ members' = members
                                   /\ branches' = branches
                                   /\ flows' = flows
                                   /\ families' = families]_vars

\* a request with spouse orders 1 and 3 was turned away
GapInSpouseOrdersRejected ==
  \E p \in Procs :
    /\ calls[p].op = "setupParents" /\ calls[p].pc = "done"
    /\ calls[p].kind = "VALIDATION_ERROR"
    /\ Len(calls[p].mothers) = 2
    /\ calls[p].mothers[1].spouseOrder = 1
    /\ calls[p].mothers[2].spouseOrder = 3
    /\ \A i \in 1..2 : calls[p].mothers[i].birthYear >= calls[p].fatherBirthYear
    /\ \E f \in families : /\ f.id = calls[p].familyId
                           /\ f.creatorId = calls[p].userId

\* C22: setupParents is all or nothing: once a call has ended with an error,
\* the mother it created is not among the stored members, and the creation
\* flow of its family has not been marked by it.
SetupParentsAtomic ==
  \A p \in Procs :
    (calls[p].op = "setupParents" /\ calls[p].pc = "done"
       /\ calls[p].kind # "ok" /\ calls[p].memberId # NoId)
    => ~ \E m \in members : m.id = calls[p].memberId

\* number of completed step flags of a creation flow
StepsDone(fl) ==
  Cardinality({ flag \in {"parentsSetup", "childrenSetup", "branchesCreated"} :
                  fl[flag] })

\* position of a step in initialized -> parent_setup -> children_setup -> completed
StepRank(step) ==
  CASE step = "initialized" -> 0
    [] step = "parent_setup" -> 1
    [] step = "children_setup" -> 2
    [] step = "completed" -> 3

StepNeverBackward ==
  [][\A fl \in flows :
       \E next \in flows' :
         /\ next.familyId = fl.familyId
         /\ StepRank(next.currentStep) >= StepRank(fl.currentStep)
         /\ fl.currentStep = "completed" => next.currentStep = "completed"]_vars

\* a flow taken to completed by the three marks
FlowCompleted ==
  \E fl \in flows : fl.currentStep = "completed" /\ StepsDone(fl) = 3

\* C30 as claimed: a creation flow at parent_setup or later has parentsSetup
\* set, and one at children_setup or later has childrenSetup set, whatever
\* order the mark operations were applied in.
StepNeverAheadOfItsFlag ==
  \A fl \in flows :
    /\ StepRank(fl.currentStep) >= 1 => fl.parentsSetup
    /\ StepRank(fl.currentStep) >= 2 => fl.childrenSetup

\* C30: a creation flow at parent_setup or later has at least one of its
\* three steps completed, and one at children_setup or later at least two,
\* whatever order the mark operations were applied in.
StepNeverAheadOfCount ==
  \A fl \in flows :
    /\ StepRank(fl.currentStep) >= 1 => StepsDone(fl) >= 1
    /\ StepRank(fl.currentStep) >= 2 => StepsDone(fl) >= 2

\* a flow at parent_setup whose parents were never set up
ParentSetupWithoutParents ==
  \E fl \in flows : fl.currentStep = "parent_setup" /\ ~fl.parentsSetup

\* C27: no creation flow stays before completed for ever: the flow of every
\* family whose guided setup was initialized reaches currentStep completed
\* once its parents are set up and its children added.
FlowReachesCompleted ==
  \A familyId \in FamilyIds :
    (\E fl \in flows : fl.familyId = familyId)
      ~> (\E fl \in flows : fl.familyId = familyId /\ fl.currentStep = "completed")

\* The handlers never take a flow past parent_setup.
FlowStopsAtParentSetup ==
  \A fl \in flows : fl.currentStep \in {"initialized", "parent_setup"}

\* C26: a member has a death year exactly when it is marked deceased, after
\* whatever members were added and updated.
DeathYearIffDeceased ==
  \A m \in members : m.isDeceased <=> m.deathYear # NoYear

\* C28: a family has at most one member whose relationship is Father, after
\* whatever setupParents and addFamilyMember calls.
OneFatherPerFamily ==
  \A familyId \in FamilyIds :
    Cardinality({ m \in members : /\ m.familyId = familyId
                                  /\ m.relationship = "Father" }) <= 1

\* C25: addFamilyMember, updateFamilyMember, deleteFamilyMember,
\* generateMemberJoinId and setupParents called on a family by someone who is
\* not its creator answer AUTHORIZATION_ERROR and change no member, branch,
\* family or creation flow.
NonCreatorRefused ==
  [][\A p \in Procs :
       (calls[p].pc = "idle" /\ calls'[p].pc = "done"
          /\ calls'[p].op \in {"addFamilyMember", "updateFamilyMember",
                               "deleteFamilyMember", "generateMemberJoinId",
                               "setupParents"}
          /\ \E f \in families : /\ f.id = calls'[p].familyId
                                 /\ f.creatorId # calls'[p].userId)
       => /\ calls'[p].kind = "AUTHORIZATION_ERROR"
          /\ members' = members
          /\ branches' = branches
          /\ families' = families
          /\ flows' = flows]_vars

\* someone who is not the creator asked for a member of a family that has
\* one, and was refused
NonCreatorTurnedAway ==
  \E p \in Procs :
    /\ calls[p].pc = "done"
    /\ calls[p].op = "deleteFamilyMember"
    /\ calls[p].kind = "AUTHORIZATION_ERROR"
    /\ \E f \in families : /\ f.id = calls[p].familyId
                           /\ f.creatorId # calls[p].userId
    /\ \E m \in members : /\ m.id = calls[p].memberId
                          /\ m.familyId = calls[p].familyId

\* No mirrored member is ever stored: a link with a member to mirror aborts
\* at the save of the first mirror.
NoMirrorStored ==
  \A m \in members : ~m.isLinkedMember /\ m.linkedFrom = NoId /\ m.linkedTo = NoId

====
